---- MODULE Spec2Model ----
(***************************************************************************)
(* A model of assets/js/script.js, the client-side script of the portfolio *)
(* page: the element resolver and its selector cache, the contact          *)
(* synchronizer, the data loader and validator, the HTML escaper and its   *)
(* cache, the five section builders, and the page initializer with its two *)
(* requestAnimationFrame callbacks.                                        *)
(*                                                                         *)
(* JavaScript values are records [t, s, n, b, a, o]: a kind and one typed  *)
(* payload field per kind (see Str, Num, Bool, Arr, Obj).  A text is a     *)
(* sequence of one-character strings.  Markup (innerHTML) is a sequence of *)
(* tokens: one token per literal chunk of a template (white space between  *)
(* tags dropped), one token per character of interpolated data, and one    *)
(* token per character reference the serializer emits ("&lt;").            *)
(***************************************************************************)
EXTENDS Integers, Sequences, FiniteSets, TLC

VARIABLES
  domCache,     \* Map selector -> node                       (line 1)
  escapeCache,  \* Map text -> escaped text                   (line 42)
  tempDiv,      \* TRUE once the scratch <div> exists          (line 43)
  markup,       \* innerHTML of every node present in the document
  classList,    \* class names of the body and of the containers
  frames,       \* callbacks registered with requestAnimationFrame, in order
  pc,           \* position of the DOMContentLoaded handler / initPortfolioContent
  data,         \* the value loadPortfolioData resolved with, if any
  calls,        \* history: the calls made so far, in order
  errors,       \* history: console.error / uncaught exceptions
  last          \* history: the most recent call of a function, with its result

vars == <<domCache, escapeCache, tempDiv, markup, classList, frames, pc, data,
          calls, errors, last>>

----------------------------------------------------------------------------
(* Bounds of the model.                                                    *)

MaxTextLen == 2

MaxCachedTexts == 2

----------------------------------------------------------------------------
(* JavaScript values.                                                      *)

\* A value is [t, s, n, b, a, o]: its type and, by type, the characters of a
\* string (s), a number (n), a boolean (b), the elements of an array (a) or
\* the <<key, value>> entries of an object in insertion order (o).
Undefined == [t |-> "undefined", s |-> <<>>, n |-> 0, b |-> FALSE, a |-> <<>>, o |-> <<>>]

Null == [Undefined EXCEPT !.t = "null"]

Bool(b) == [Undefined EXCEPT !.t = "boolean", !.b = b]

Num(n) == [Undefined EXCEPT !.t = "number", !.n = n]

Str(s) == [Undefined EXCEPT !.t = "string", !.s = s]

Arr(a) == [Undefined EXCEPT !.t = "array", !.a = a]

Obj(o) == [Undefined EXCEPT !.t = "object", !.o = o]

\* !x : undefined, null, false, 0 and "" are falsy, everything else truthy.
Truthy(x) ==
  CASE x.t \in {"undefined", "null"} -> FALSE
    [] x.t = "boolean" -> x.b
    [] x.t = "number" -> x.n # 0
    [] x.t = "string" -> x.s # <<>>
    [] OTHER -> TRUE

Digit(n) == <<"0", "1", "2", "3", "4", "5", "6", "7", "8", "9">>[n + 1]

\* The decimal digits of a natural number.
RECURSIVE Decimal(_)
Decimal(n) == IF n < 10 THEN <<Digit(n)>> ELSE Decimal(n \div 10) \o <<Digit(n % 10)>>

\* A key of an object is a text, like every string of the document.  A
\* property name written in the script is a string of ASCII characters;
\* KeyText gives its characters.
KeyText(name) == [i \in 1..Len(name) |-> SubSeq(name, i, i)]

\* An object whose keys are given as names.
Object(fields) == Obj([i \in 1..Len(fields) |-> <<KeyText(fields[i][1]), fields[i][2]>>])

Digits == {Digit(n) : n \in 0..9}

DigitValue(c) == CHOOSE n \in 0..9 : Digit(n) = c

\* a < b, for two digit texts of the same length.
RECURSIVE DigitsLess(_, _)
DigitsLess(a, b) ==
  /\ a # <<>>
  /\ \/ DigitValue(a[1]) < DigitValue(b[1])
     \/ a[1] = b[1] /\ DigitsLess(Tail(a), Tail(b))

\* a < b, for two canonical decimal numerals.
NumberLess(a, b) == Len(a) < Len(b) \/ (Len(a) = Len(b) /\ DigitsLess(a, b))

\* The largest array index, 2^32 - 2.
MaxArrayIndex == KeyText("4294967294")

\* An array index: the canonical decimal numeral of an integer from 0 to
\* 2^32 - 2.  An object lists these keys first, in ascending order.
IsArrayIndex(key) ==
  /\ Len(key) > 0
  /\ \A i \in 1..Len(key) : key[i] \in Digits
  /\ key[1] = "0" => Len(key) = 1
  /\ ~NumberLess(MaxArrayIndex, key)

\* The entries of an object in the order of its own keys: the array indices
\* in ascending order, then the other keys in insertion order.
OwnEntries(o) ==
  LET indexed == SelectSeq(o, LAMBDA e : IsArrayIndex(e[1]))
      Before(j) == {k \in 1..Len(indexed) :
                      NumberLess(indexed[k][1], indexed[j][1])}
  IN [i \in 1..Len(indexed) |->
        indexed[CHOOSE j \in 1..Len(indexed) : Cardinality(Before(j)) = i - 1]]
     \o SelectSeq(o, LAMBDA e : ~IsArrayIndex(e[1]))

HasKey(x, name) == x.t = "object" /\ \E i \in 1..Len(x.o) : x.o[i][1] = KeyText(name)

\* x.name : a property read; the caller has excluded null and undefined.
Prop(x, name) ==
  IF HasKey(x, name)
  THEN x.o[CHOOSE i \in 1..Len(x.o) : x.o[i][1] = KeyText(name)][2]
  ELSE Undefined

\* Object.entries(x) of a value that is neither null nor undefined.
Entries(x) ==
  CASE x.t = "object" -> OwnEntries(x.o)
    [] x.t = "string" -> [i \in 1..Len(x.s) |-> <<Decimal(i - 1), Str(<<x.s[i]>>)>>]
    [] x.t = "array" -> [i \in 1..Len(x.a) |-> <<Decimal(i - 1), x.a[i]>>]
    [] OTHER -> <<>>

\* Reading a property of null or undefined throws a TypeError.
PropThrows(x) == x.t \in {"undefined", "null"}

\* An object parsed from JSON with an own "toString" key has no callable
\* toString (and the inherited valueOf returns the object): converting it to
\* a string throws a TypeError.
RECURSIVE CanStringify(_)
CanStringify(x) ==
  CASE x.t = "object" -> ~HasKey(x, "toString")
    [] x.t = "array" -> \A i \in 1..Len(x.a) : CanStringify(x.a[i])
    [] OTHER -> TRUE

RECURSIVE JoinTokens(_, _)
JoinTokens(parts, sep) ==
  IF parts = <<>> THEN <<>>
  ELSE IF Len(parts) = 1 THEN parts[1]
  ELSE parts[1] \o sep \o JoinTokens(Tail(parts), sep)

\* String(x), as a template literal or a DOMString conversion computes it
\* for a value that CanStringify.
RECURSIVE StringOf(_)
StringOf(x) ==
  CASE x.t = "string" -> x.s
    [] x.t = "number" -> Decimal(x.n)
    [] x.t = "boolean" -> <<IF x.b THEN "true" ELSE "false">>
    [] x.t = "undefined" -> <<"undefined">>
    [] x.t = "null" -> <<"null">>
    [] x.t = "array" ->
         JoinTokens([i \in 1..Len(x.a) |->
                       IF x.a[i].t \in {"undefined", "null"} THEN <<>>
                       ELSE StringOf(x.a[i])], <<",">>)
    [] OTHER -> <<"[object Object]">>

\* map.set(key, value)
MapSet(map, key, value) ==
  [k \in DOMAIN map \cup {key} |-> IF k = key THEN value ELSE map[k]]

EmptyMap == [k \in {} |-> <<>>]

----------------------------------------------------------------------------
(* Element Resolver (lines 1-12).                                          *)

\* A selector is a text, written like markup: one token per literal chunk and
\* one per interpolated name.  null, the answer for no match:
NoNode == <<>>

\* document.querySelector(selector) on the page: a node is named by the
\* selector that finds it.
querySelector(doc, selector) ==
  IF selector \in DOMAIN doc THEN selector ELSE NoNode

\* A resolver that never stores what it finds.
getElement_NoStore(cache, found, selector, useCache) ==
  IF useCache /\ selector \in DOMAIN cache
  THEN [ret |-> cache[selector], cache |-> cache, queried |-> FALSE]
  ELSE [ret |-> found, cache |-> cache, queried |-> TRUE]

\* getElement(selector, useCache), with `found` the node querySelector
\* answers if it is asked.  queried tells whether it was asked.
getElement(cache, found, selector, useCache) ==
  IF useCache /\ selector \in DOMAIN cache
  THEN [ret |-> cache[selector], cache |-> cache, queried |-> FALSE]
  ELSE [ret |-> found,
        cache |-> IF useCache /\ found # NoNode
                  THEN MapSet(cache, selector, found) ELSE cache,
        queried |-> TRUE]

----------------------------------------------------------------------------
(* Data Validator (lines 34-40).                                           *)

required == <<"personal", "experience", "education", "technicalSkills", "projects">>

\* A filter over the keys in alphabetical order instead of the required one.
MissingSections_Sorted(d) ==
  SelectSeq(<<"education", "experience", "personal", "projects", "technicalSkills">>,
            LAMBDA section : ~Truthy(Prop(d, section)))

\* required.filter(section => !data[section])
MissingSections(d) == SelectSeq(required, LAMBDA section : ~Truthy(Prop(d, section)))

\* A validator that asks whether a key is there, not whether it is truthy.
validateData_PresenceOnly(d) ==
  IF PropThrows(d)
  THEN [threw |-> TRUE, message |-> <<"TypeError">>]
  ELSE IF \E i \in 1..Len(required) : ~HasKey(d, required[i])
  THEN [threw |-> TRUE, message |-> <<"Missing required sections: ">>]
  ELSE [threw |-> FALSE, message |-> <<>>]

\* validateData(data): threw tells whether it throws, message is the error's.
validateData(d) ==
  IF PropThrows(d)
  THEN [threw |-> TRUE, message |-> <<"TypeError">>]
  ELSE LET missing == MissingSections(d) IN
       IF Len(missing) > 0
       THEN [threw |-> TRUE,
             message |-> <<"Missing required sections: ">>
                         \o JoinTokens([i \in 1..Len(missing) |-> <<missing[i]>>], <<", ">>)]
       ELSE [threw |-> FALSE, message |-> <<>>]

----------------------------------------------------------------------------
(* HTML Escaper (lines 42-61).                                             *)

\* U+00A0, the no-break space.  A character of a text is one token; how the
\* token itself is spelled plays no part.
NBSP == " "

\* The serialization of one character of a text node (element.innerHTML).
SerializeChar(c) ==
  CASE c = "&" -> "&amp;"
    [] c = NBSP -> "&nbsp;"
    [] c = "<" -> "&lt;"
    [] c = ">" -> "&gt;"
    [] OTHER -> c

\* tempDiv.textContent = text; tempDiv.innerHTML
SerializeText(text) == [i \in 1..Len(text) |-> SerializeChar(text[i])]

\* An escaper that caches the raw text instead of the escaped one.
escapeHtml_CachesRaw(esc, text) ==
  IF text.t # "string" THEN [ret |-> <<>>, esc |-> esc]
  ELSE IF text.s \in DOMAIN esc.cache
  THEN [ret |-> esc.cache[text.s], esc |-> esc]
  ELSE [ret |-> SerializeText(text.s),
        esc |-> [cache |-> MapSet(esc.cache, text.s, text.s), div |-> TRUE]]

\* escapeHtml(text) in the state esc = [cache, div] of the escape cache and
\* the scratch node: the returned text and the state it leaves.
escapeHtml(esc, text) ==
  IF text.t # "string" THEN [ret |-> <<>>, esc |-> esc]
  ELSE IF text.s \in DOMAIN esc.cache
  THEN [ret |-> esc.cache[text.s], esc |-> esc]
  ELSE LET escaped == SerializeText(text.s) IN
       [ret |-> escaped,
        esc |-> [cache |-> MapSet(esc.cache, text.s, escaped), div |-> TRUE]]

----------------------------------------------------------------------------
(* The mutable world a function of the script works on:                    *)
(* w = [markup, classList, domCache, esc], esc the escaper's [cache, div]. *)

Lookup(w, selector) ==
  getElement(w.domCache, querySelector(w.markup, selector), selector, TRUE)

----------------------------------------------------------------------------
(* Contact Synchronizer (lines 14-24).                                     *)

headerSelector(dataTestName) ==
  <<"[data-test-location=\"header\"][data-test-name=\"", dataTestName, "\"]">>

sidebarSelector(dataTestName) ==
  <<"[data-test-location=\"sidebar\"][data-test-name=\"", dataTestName, "\"]">>

\* A synchronizer that copies the header onto the sidebar.
syncContactInfo_Reversed(w, dataTestName) ==
  LET h == Lookup(w, headerSelector(dataTestName))
      w1 == [w EXCEPT !.domCache = h.cache]
      s == Lookup(w1, sidebarSelector(dataTestName))
      w2 == [w1 EXCEPT !.domCache = s.cache]
  IN IF h.ret # NoNode /\ s.ret # NoNode
     THEN [w2 EXCEPT !.markup[s.ret] = w2.markup[h.ret]]
     ELSE w2

\* syncContactInfo(dataTestName): the world it leaves.
syncContactInfo(w, dataTestName) ==
  LET h == Lookup(w, headerSelector(dataTestName))
      w1 == [w EXCEPT !.domCache = h.cache]
      s == Lookup(w1, sidebarSelector(dataTestName))
      w2 == [w1 EXCEPT !.domCache = s.cache]
  IN IF h.ret # NoNode /\ s.ret # NoNode
     THEN [w2 EXCEPT !.markup[h.ret] = w2.markup[s.ret]]
     ELSE w2

----------------------------------------------------------------------------
(* Section Builders (lines 63-182).  A builder answers [w, outcome]:       *)
(*   "skipped"  it warned and returned (no container, or the data's shape) *)
(*   "caught"   rendering threw and the builder's catch logged it          *)
(*   "uncaught" an exception left the builder                              *)
(*   "wrote"    it assigned the container's innerHTML                      *)

\* buildHighlights(highlights): [threw, html].  The template literal
\* converts each item to a string.
buildHighlights(highlights) ==
  IF highlights.t # "array" THEN [threw |-> FALSE, html |-> <<>>]
  ELSE IF \E i \in 1..Len(highlights.a) : ~CanStringify(highlights.a[i])
  THEN [threw |-> TRUE, html |-> <<>>]
  ELSE [threw |-> FALSE,
        html |-> JoinTokens([i \in 1..Len(highlights.a) |->
                               <<"<li>">> \o StringOf(highlights.a[i]) \o <<"</li>">>],
                            <<>>)]

\* `${x || ''}` : [threw, text]
OrEmpty(x) ==
  IF ~Truthy(x) THEN [threw |-> FALSE, text |-> <<>>]
  ELSE IF ~CanStringify(x) THEN [threw |-> TRUE, text |-> <<>>]
  ELSE [threw |-> FALSE, text |-> StringOf(x)]

Threw(esc) == [threw |-> TRUE, html |-> <<>>, esc |-> esc]


\* The callback of data.experience.map (lines 93-107): [threw, html, esc].
jobTemplate(esc, job) ==
  IF PropThrows(job) THEN Threw(esc)
  ELSE LET highlights == buildHighlights(Prop(job, "highlights")) IN
       IF highlights.threw THEN Threw(esc)
       ELSE LET company == escapeHtml(esc, Prop(job, "company"))
                title == escapeHtml(company.esc, Prop(job, "title"))
                startDate == OrEmpty(Prop(job, "startDate"))
                period == escapeHtml(title.esc, Prop(job, "period"))
            IN IF startDate.threw THEN Threw(title.esc)
               ELSE [threw |-> FALSE,
                     html |-> <<"<li class=\"experience-position\"><div class=\"experience-header\"><h3 class=\"experience-company\">">>
                              \o company.ret
                              \o <<"</h3><div class=\"experience-title\">">>
                              \o title.ret
                              \o <<"</div><time datetime=\"">>
                              \o startDate.text
                              \o <<"\">">>
                              \o period.ret
                              \o <<"</time></div><ul class=\"sub-list\">">>
                              \o highlights.html
                              \o <<"</ul></li>">>,
                     esc |-> period.esc]

\* The callback of data.education.map (lines 123-129); the separator after
\* the name, a dash in the source, is written -- here.
certTemplate(esc, cert) ==
  IF PropThrows(cert) THEN Threw(esc)
  ELSE LET name == escapeHtml(esc, Prop(cert, "name"))
           issuer == escapeHtml(name.esc, Prop(cert, "issuer"))
           dateTime == OrEmpty(Prop(cert, "dateTime"))
           date == escapeHtml(issuer.esc, Prop(cert, "date"))
       IN IF dateTime.threw THEN Threw(issuer.esc)
          ELSE [threw |-> FALSE,
                html |-> <<"<li><strong>">> \o name.ret \o <<"</strong> -- ">>
                         \o issuer.ret \o <<" (<time datetime=\"">>
                         \o dateTime.text \o <<"\">">> \o date.ret
                         \o <<"</time>)</li>">>,
                esc |-> date.esc]

\* The callback over Object.entries(data.technicalSkills) (lines 145-148);
\* entry = <<category, skills>>.
skillTemplate(esc, entry) ==
  LET category == escapeHtml(esc, Str(entry[1]))
      skills == escapeHtml(category.esc, entry[2])
  IN [threw |-> FALSE,
      html |-> <<"<dt>">> \o category.ret \o <<"</dt><dd>">> \o skills.ret \o <<"</dd>">>,
      esc |-> skills.esc]

\* text.startsWith('http')
StartsWithHttp(text) ==
  Len(text) >= 4 /\ SubSeq(text, 1, 4) = <<"h", "t", "t", "p">>

\* The callback of data.projects.map (lines 164-176).  project.url?.startsWith
\* is undefined, and calling it throws, unless url is a string, null or
\* undefined.
projectTemplate(esc, project) ==
  IF PropThrows(project) THEN Threw(esc)
  ELSE LET url == Prop(project, "url") IN
       IF url.t \notin {"string", "null", "undefined"} THEN Threw(esc)
       ELSE LET isExternal == url.t = "string" /\ StartsWithHttp(url.s)
                linkAttrs == IF isExternal
                             THEN <<"target=\"_blank\" rel=\"noopener\"">> ELSE <<>>
                href == escapeHtml(esc, url)
                name == escapeHtml(href.esc, Prop(project, "name"))
                description == escapeHtml(name.esc, Prop(project, "description"))
            IN [threw |-> FALSE,
                html |-> <<"<dt><a href=\"">> \o href.ret \o <<"\" ">> \o linkAttrs
                         \o <<"><span class=\"github-prefix\">github.com/</span>">>
                         \o name.ret \o <<"</a></dt><dd>">> \o description.ret
                         \o <<"</dd>">>,
                esc |-> description.esc]

Template(section, esc, item) ==
  CASE section = "experience" -> jobTemplate(esc, item)
    [] section = "education" -> certTemplate(esc, item)
    [] section = "technicalSkills" -> skillTemplate(esc, item)
    [] section = "projects" -> projectTemplate(esc, item)

\* items.map(template).join('') inside a try block: the escapes made before
\* a throw stay in the escape cache.
RECURSIVE RenderList(_, _, _)

\* join: the fragment of the first item before those of the rest.
Joined(first, rest) ==
  IF rest.threw THEN rest
  ELSE [threw |-> FALSE, html |-> first.html \o rest.html, esc |-> rest.esc]

\* The items after the first, unless the first threw.
RenderRest(section, first, items) ==
  IF first.threw THEN first
  ELSE Joined(first, RenderList(section, first.esc, items))

RenderList(section, esc, items) ==
  IF items = <<>> THEN [threw |-> FALSE, html |-> <<>>, esc |-> esc]
  ELSE RenderRest(section, Template(section, esc, Head(items)), Tail(items))

Container(section) ==
  CASE section = "personal" -> <<".header-summary p">>
    [] section = "experience" -> <<".experience-list">>
    [] section = "education" -> <<".education-list">>
    [] section = "technicalSkills" -> <<".technical-skills dl">>
    [] section = "projects" -> <<".key-projects dl">>

\* A builder that empties its container before it renders.
AssignOrCatch_ClearFirst(w, container, rendered) ==
  IF rendered.threw
  THEN [w |-> [w EXCEPT !.esc = rendered.esc, !.markup[container] = <<>>],
        outcome |-> "caught"]
  ELSE [w |-> [w EXCEPT !.esc = rendered.esc, !.markup[container] = rendered.html],
        outcome |-> "wrote"]

\* try { container.innerHTML = html } catch { console.error }, with
\* rendered the outcome [threw, html, esc] of computing html.
AssignOrCatch(w, container, rendered) ==
  IF rendered.threw
  THEN [w |-> [w EXCEPT !.esc = rendered.esc], outcome |-> "caught"]
  ELSE [w |-> [w EXCEPT !.esc = rendered.esc, !.markup[container] = rendered.html],
        outcome |-> "wrote"]

RenderInto(w, container, section, items) ==
  AssignOrCatch(w, container, RenderList(section, w.esc, items))

\* buildHeaderSummary(data) (lines 68-83): no try block; the innerHTML setter
\* converts the summary to a string before it changes the node.
buildHeaderSummary(w, d) ==
  LET c == Lookup(w, Container("personal"))
      w1 == [w EXCEPT !.domCache = c.cache]
      summary == Prop(Prop(d, "personal"), "summary")
  IN IF c.ret = NoNode THEN [w |-> w1, outcome |-> "skipped"]
     ELSE IF ~Truthy(summary) THEN [w |-> w1, outcome |-> "skipped"]
     ELSE IF ~CanStringify(summary) THEN [w |-> w1, outcome |-> "uncaught"]
     ELSE [w |-> [w1 EXCEPT !.markup[c.ret] = StringOf(summary),
                            !.classList[c.ret] = @ \ {"loading-placeholder"}],
           outcome |-> "wrote"]

\* buildExperienceSection(data) (lines 85-113)
buildExperienceSection(w, d) ==
  LET c == Lookup(w, Container("experience"))
      w1 == [w EXCEPT !.domCache = c.cache]
  IN IF c.ret = NoNode \/ Prop(d, "experience").t # "array"
     THEN [w |-> w1, outcome |-> "skipped"]
     ELSE RenderInto(w1, c.ret, "experience", Prop(d, "experience").a)

\* buildEducationSection(data) (lines 115-135)
buildEducationSection(w, d) ==
  LET c == Lookup(w, Container("education"))
      w1 == [w EXCEPT !.domCache = c.cache]
  IN IF c.ret = NoNode \/ Prop(d, "education").t # "array"
     THEN [w |-> w1, outcome |-> "skipped"]
     ELSE RenderInto(w1, c.ret, "education", Prop(d, "education").a)

\* buildSkillsSection(data) (lines 137-154)
buildSkillsSection(w, d) ==
  LET c == Lookup(w, Container("technicalSkills"))
      w1 == [w EXCEPT !.domCache = c.cache]
  IN IF c.ret = NoNode \/ ~Truthy(Prop(d, "technicalSkills"))
     THEN [w |-> w1, outcome |-> "skipped"]
     ELSE RenderInto(w1, c.ret, "technicalSkills", Entries(Prop(d, "technicalSkills")))

\* buildProjectsSection(data) (lines 156-182)
buildProjectsSection(w, d) ==
  LET c == Lookup(w, Container("projects"))
      w1 == [w EXCEPT !.domCache = c.cache]
  IN IF c.ret = NoNode \/ Prop(d, "projects").t # "array"
     THEN [w |-> w1, outcome |-> "skipped"]
     ELSE RenderInto(w1, c.ret, "projects", Prop(d, "projects").a)

builders == <<"buildHeaderSummary", "buildExperienceSection", "buildEducationSection",
              "buildSkillsSection", "buildProjectsSection">>

Build(fn, w, d) ==
  CASE fn = "buildHeaderSummary" -> buildHeaderSummary(w, d)
    [] fn = "buildExperienceSection" -> buildExperienceSection(w, d)
    [] fn = "buildEducationSection" -> buildEducationSection(w, d)
    [] fn = "buildSkillsSection" -> buildSkillsSection(w, d)
    [] fn = "buildProjectsSection" -> buildProjectsSection(w, d)

----------------------------------------------------------------------------
(* Data Loader (lines 26-32).  A response is                               *)
(*   [rejects, ok, status, parses, value]: whether fetch rejects, the      *)
(*   response's ok and status, whether its body parses, and the value.     *)

loadPortfolioData(response) ==
  IF response.rejects
  THEN [threw |-> TRUE, message |-> <<"Failed to fetch">>, value |-> Undefined]
  ELSE IF ~response.ok
  THEN [threw |-> TRUE,
        message |-> <<"HTTP ">> \o Decimal(response.status)
                    \o <<": Failed to load data.json">>,
        value |-> Undefined]
  ELSE IF ~response.parses
  THEN [threw |-> TRUE, message |-> <<"SyntaxError">>, value |-> Undefined]
  ELSE [threw |-> FALSE, message |-> <<>>, value |-> response.value]

----------------------------------------------------------------------------
(* The page.                                                               *)

contactTypes == <<"contact-location", "contact-email", "contact-github",
                  "contact-linkedin", "contact-pdf">>

Range(seq) == {seq[i] : i \in 1..Len(seq)}

Body == <<"body">>

Containers == {Container(section) : section \in Range(required)}

HeaderNodes == {headerSelector(n) : n \in Range(contactTypes)}

SidebarNodes == {sidebarSelector(n) : n \in Range(contactTypes)}

\* The document before the script runs, without the nodes in `missing`.
PageMarkup(missing) ==
  [n \in (Containers \cup HeaderNodes \cup SidebarNodes) \ missing |->
     IF n \in Containers THEN <<"Loading...">>
     ELSE IF n \in HeaderNodes THEN <<>>
     ELSE <<"<a href=\"#\">", n[2], "</a>">>]

PageClasses(missing) ==
  [n \in (Containers \ missing) \cup {Body} |->
     IF n = Container("personal") THEN {"loading-placeholder"} ELSE {}]

World ==
  [markup |-> markup, classList |-> classList, domCache |-> domCache,
   esc |-> [cache |-> escapeCache, div |-> tempDiv]]

SetWorld(w) ==
  /\ markup' = w.markup
  /\ classList' = w.classList
  /\ domCache' = w.domCache
  /\ escapeCache' = w.esc.cache
  /\ tempDiv' = w.esc.div

NoData == [outcome |-> "pending", value |-> Undefined]

NoCall == [fn |-> "none"]

InitWith(m, d) ==
  /\ domCache = EmptyMap
  /\ escapeCache = EmptyMap
  /\ tempDiv = FALSE
  /\ markup = PageMarkup(m)
  /\ classList = PageClasses(m)
  /\ frames = <<>>
  /\ pc = "ready"
  /\ data = d
  /\ calls = <<>>
  /\ errors = <<>>
  /\ last = NoCall

----------------------------------------------------------------------------
(* Inputs: the documents data.json may hold, the responses, the pages.     *)

Unprintable == Object(<<<<"toString", Num(0)>>>>)

Job1 ==
  Object(<< <<"company", Str(<<"a", "&">>)>>, <<"title", Str(<<"b", NBSP>>)>>,
         <<"period", Str(<<"c">>)>>, <<"startDate", Str(<<"2", "0">>)>>,
         <<"highlights", Arr(<<Str(<<"<", "i", ">">>), Str(<<"x">>)>>)>> >>)

Job2 ==
  Object(<< <<"company", Str(<<"b">>)>>, <<"startDate", Unprintable>> >>)

Cert1 ==
  Object(<< <<"name", Str(<<"a", "&">>)>>, <<"issuer", Str(<<"<">>)>>,
         <<"date", Str(<<"c">>)>> >>)

ProjectHttp ==
  Object(<< <<"name", Str(<<"r">>)>>,
         <<"url", Str(<<"h", "t", "t", "p", "s", ":", "/", "/", "g">>)>>,
         <<"description", Str(<<"a", ">">>)>> >>)

ProjectMail ==
  Object(<< <<"name", Str(<<"m">>)>>, <<"url", Str(<<"m", "a", "i", "l", "t", "o", ":", "x">>)>> >>)

ProjectBadUrl == Object(<< <<"name", Str(<<"r">>)>>, <<"url", Num(5)>> >>)

PersonalValues ==
  { Undefined, Obj(<<>>), Object(<< <<"summary", Str(<<"<", "b", ">", "a">>)>> >>),
    Object(<< <<"summary", Unprintable>> >>) }

ExperienceValues ==
  { Null, Str(<<"a">>), Arr(<<Job1>>), Arr(<<Job1, Null>>), Arr(<<Job1, Job2>>) }

EducationValues == { Num(0), Obj(<<>>), Arr(<<Cert1>>), Arr(<<Cert1, Null>>) }

SkillsValues ==
  { Undefined, Str(<<"a">>),
    Obj(<< <<KeyText("C&C"), Str(<<"a", "&">>)>>, <<KeyText("10"), Num(5)>>,
           <<KeyText("9"), Str(<<"C", "&", "C">>)>>, <<<<"a", NBSP>>, Str(<<NBSP>>)>>,
           <<<<NBSP>>, Str(<<NBSP>>)>> >>) }

ProjectsValues ==
  { Str(<<>>), Bool(TRUE), Arr(<<ProjectHttp, ProjectMail>>), Arr(<<ProjectBadUrl>>) }

\* JSON.parse never yields undefined: an absent key is left out.
Document(personal, experience, education, technicalSkills, projects) ==
  Object(SelectSeq(<< <<"personal", personal>>, <<"experience", experience>>,
                   <<"education", education>>, <<"technicalSkills", technicalSkills>>,
                   <<"projects", projects>> >>,
                LAMBDA entry : entry[2] # Undefined))

Documents ==
  { Document(p, x, e, s, j) :
      p \in PersonalValues, x \in ExperienceValues, e \in EducationValues,
      s \in SkillsValues, j \in ProjectsValues }

Responses ==
  { [rejects |-> TRUE, ok |-> FALSE, status |-> 0, parses |-> FALSE, value |-> Undefined],
    [rejects |-> FALSE, ok |-> FALSE, status |-> 404, parses |-> FALSE, value |-> Undefined],
    [rejects |-> FALSE, ok |-> TRUE, status |-> 200, parses |-> FALSE, value |-> Undefined],
    [rejects |-> FALSE, ok |-> TRUE, status |-> 200, parses |-> TRUE, value |-> Null] }
  \cup { [rejects |-> FALSE, ok |-> TRUE, status |-> 200, parses |-> TRUE, value |-> d] :
           d \in Documents }

\* The pages the script is run on: the complete page, and pages that lack
\* some of the nodes the script looks for.
PageShapes ==
  { {}, {Container("personal")}, {Container("experience")}, Containers,
    {headerSelector("contact-email")}, {sidebarSelector("contact-pdf")} }

----------------------------------------------------------------------------
(* Page Initializer (lines 184-219).                                       *)

AddContentLoaded(classes) == [classes EXCEPT ![Body] = @ \cup {"content-loaded"}]

\* contactTypes.forEach(syncContactInfo) (line 215): [w, log]
Logged(entry, rest) == [rest EXCEPT !.log = <<entry>> \o @]

RECURSIVE SyncAll(_, _)
SyncAll(w, names) ==
  IF names = <<>> THEN [w |-> w, log |-> <<>>]
  ELSE Logged(<<"syncContactInfo", Head(names)>>,
              SyncAll(syncContactInfo(w, Head(names)), Tail(names)))

\* The five builder calls of lines 192-196, in order; an exception that
\* leaves a builder ends the callback: [w, log, aborted]
RECURSIVE RunBuilders(_, _, _)

\* After the builder fn answered b: the builders after it, unless an
\* exception left fn.
AfterBuilder(fn, b, d, fns) ==
  IF b.outcome = "uncaught"
  THEN [w |-> b.w, log |-> <<<<fn, b.outcome>>>>, aborted |-> TRUE]
  ELSE Logged(<<fn, b.outcome>>, RunBuilders(b.w, d, fns))

RunBuilders(w, d, fns) ==
  IF fns = <<>> THEN [w |-> w, log |-> <<>>, aborted |-> FALSE]
  ELSE AfterBuilder(Head(fns), Build(Head(fns), w, d), d, Tail(fns))

\* A handler that awaits initPortfolioContent before it registers the
\* contacts' callback.
DOMContentLoaded_FetchFirst ==
  /\ pc = "ready"
  /\ calls' = Append(calls, <<"fetch", "data.json">>)
  /\ pc' = "fetching"
  /\ UNCHANGED <<domCache, escapeCache, tempDiv, markup, classList, frames, data,
                 errors, last>>

\* The DOMContentLoaded handler up to its await (lines 211-218), with
\* initPortfolioContent up to the fetch it awaits (lines 185-188, 27).
DOMContentLoaded ==
  /\ pc = "ready"
  /\ frames' = Append(frames, [fn |-> "contacts", data |-> Undefined])
  /\ calls' = calls \o << <<"requestAnimationFrame", "contacts">>, <<"fetch", "data.json">> >>
  /\ pc' = "fetching"
  /\ UNCHANGED <<domCache, escapeCache, tempDiv, markup, classList, data, errors, last>>

\* The catch block of lines 204-208: the promise settles.
CatchBlock(message, outcome, value) ==
  /\ errors' = Append(errors, <<"Failed to load dynamic content:">> \o message)
  /\ classList' = AddContentLoaded(classList)
  /\ calls' = Append(calls, <<"classList.add", "content-loaded">>)
  /\ data' = [outcome |-> outcome, value |-> value]
  /\ pc' = "settled"

\* The fetch settles (lines 27-31): loadPortfolioData resumes; a rejected
\* fetch or a response that is not ok throws into the catch block of
\* initPortfolioContent, otherwise response.json() is called and awaited,
\* the body read in a later task.
ResponseArrives(response) ==
  /\ pc = "fetching"
  /\ IF response.rejects \/ ~response.ok
     THEN CatchBlock(loadPortfolioData(response).message, "load failed", Undefined)
     ELSE /\ pc' = "parsing"
          /\ UNCHANGED <<errors, classList, calls, data>>
  /\ UNCHANGED <<domCache, escapeCache, tempDiv, markup, frames, last>>

\* initPortfolioContent from the settling of response.json() on (lines
\* 188-208): the validation, and either the registration of the builders'
\* callback or the catch block.
initPortfolioContent(response) ==
  /\ pc = "parsing"
  /\ ~response.rejects /\ response.ok
  /\ LET loaded == loadPortfolioData(response)
         valid == validateData(loaded.value)
     IN IF loaded.threw \/ valid.threw
        THEN /\ CatchBlock(IF loaded.threw THEN loaded.message ELSE valid.message,
                           IF loaded.threw THEN "load failed" ELSE "invalid",
                           loaded.value)
             /\ frames' = frames
        ELSE /\ frames' = Append(frames, [fn |-> "builders", data |-> loaded.value])
             /\ calls' = Append(calls, <<"requestAnimationFrame", "builders">>)
             /\ data' = [outcome |-> "valid", value |-> loaded.value]
             /\ pc' = "settled"
             /\ UNCHANGED <<errors, classList>>
  /\ UNCHANGED <<domCache, escapeCache, tempDiv, markup, last>>

\* The callback of line 214, run by the browser at the next frame.
ContactFrame ==
  /\ frames # <<>>
  /\ Head(frames).fn = "contacts"
  /\ \E r \in {SyncAll(World, contactTypes)} :
       /\ SetWorld(r.w)
       /\ calls' = calls \o r.log
  /\ frames' = Tail(frames)
  /\ UNCHANGED <<pc, data, errors, last>>

\* The callback of lines 191-202, run by the browser at the next frame.
BuilderFrame ==
  /\ frames # <<>>
  /\ Head(frames).fn = "builders"
  /\ \E r \in {RunBuilders(World, Head(frames).data, builders)} :
       IF r.aborted
       THEN /\ SetWorld(r.w)
            /\ calls' = calls \o r.log
            /\ errors' = Append(errors, <<"Uncaught TypeError">>)
       ELSE /\ SetWorld([r.w EXCEPT !.classList = AddContentLoaded(@)])
            /\ calls' = (calls \o r.log) \o << <<"classList.add", "content-loaded">> >>
            /\ errors' = errors
  /\ frames' = Tail(frames)
  /\ UNCHANGED <<pc, data, last>>

Init == \E m \in PageShapes : InitWith(m, NoData)

Next ==
  \/ DOMContentLoaded
  \/ \E response \in Responses : ResponseArrives(response)
  \/ \E response \in Responses : initPortfolioContent(response)
  \/ ContactFrame
  \/ BuilderFrame

Spec == Init /\ [][Next]_vars

----------------------------------------------------------------------------
(* What the claims about the page speak of.                                *)

ContentLoadedAdd == <<"classList.add", "content-loaded">>

Indices(entries) == {i \in 1..Len(calls) : calls[i] \in entries}

\* The calls, so far, of classList.add('content-loaded').
Adds == Indices({ContentLoadedAdd})

\* The builder calls so far, whatever their outcome.
BuilderCalls == {i \in 1..Len(calls) : calls[i][1] \in Range(builders)}

SyncCalls == {i \in 1..Len(calls) : calls[i][1] = "syncContactInfo"}

Invoked(fn) == \E i \in 1..Len(calls) : calls[i][1] = fn

\* All five required keys are there and truthy.
DocumentValid(d) ==
  /\ d.t \notin {"undefined", "null"}
  /\ \A i \in 1..Len(required) : Truthy(Prop(d, required[i]))

\* The promise of initPortfolioContent has settled.
Settled == pc = "settled"

\* Nothing of the initialization is left to run: the promise has settled
\* and every registered animation-frame callback has run.
Completed == Settled /\ frames = <<>>

ContainersUntouched ==
  \A c \in Containers \cap DOMAIN markup : markup[c] = <<"Loading...">>

Uncaught == \E i \in 1..Len(errors) : errors[i] = <<"Uncaught TypeError">>

\* C1: after every run of the initializer, whatever the response and
\* whatever the builders do, content-loaded has been added to the body
\* exactly once and is on the body once the initialization has completed.
\* Stated here for the completion most favourable to the claim (the promise
\* settled and no callback pending); the claim's own reading, the settling
\* of the promise alone, asks for more.
C1_ContentLoadedExactlyOnce ==
  Completed => (Cardinality(Adds) = 1 /\ "content-loaded" \in classList[Body])

\* C2: when the load fails or the validation throws, no builder is ever
\* invoked, no container is modified, no error escapes, and the body is
\* marked content-loaded when the promise settles; and a builder runs only
\* for a document that was loaded and is valid.
C2_FailureAbortsPipeline ==
  /\ (Settled /\ ~DocumentValid(data.value)) =>
       /\ BuilderCalls = {}
       /\ ContainersUntouched
       /\ escapeCache = EmptyMap
       /\ ~Uncaught
       /\ Len(errors) = 1
       /\ "content-loaded" \in classList[Body]
       /\ Cardinality(Adds) = 1
       /\ \A i \in 1..Len(frames) : frames[i].fn # "builders"
  /\ BuilderCalls # {} => (Settled /\ data.outcome = "valid" /\ DocumentValid(data.value))
  /\ \A i \in 1..Len(frames) :
       frames[i].fn = "builders" => (DocumentValid(frames[i].data) /\ frames[i].data = data.value)

\* C2's case: a document that fails validation, after everything has run.
C2_Witness ==
  /\ Completed
  /\ data.outcome = "invalid"
  /\ data.value.t = "object"
  /\ SyncCalls # {}

\* C3: for every validated document, once the builders' callback has run,
\* all five builders have been invoked and no exception has left a builder.
C3_EveryBuilderRuns ==
  (Completed /\ data.outcome = "valid") =>
     /\ \A i \in 1..Len(builders) : Invoked(builders[i])
     /\ ~Uncaught

\* C7: what the list builders write into their containers holds no raw
\* markup character of the document: every text field, and every item of
\* an entry's highlights, went through the escaper.
C7_ListTextEscaped ==
  \A c \in (Containers \ {Container("personal")}) \cap DOMAIN markup :
     \A i \in 1..Len(markup[c]) : markup[c][i] \notin {"<", ">", "&"}

\* C10: the contacts' callback is registered before the fetch is issued, the
\* builders' callback only after the load and the validation; whenever a
\* builder has run, all five synchronizations ran before it; the calls of
\* each batch are consecutive; and on the success path content-loaded is
\* added only after all five builders were invoked.
C10_BatchOrder ==
  /\ \A i \in Indices({<<"fetch", "data.json">>}) :
       \E j \in 1..(i - 1) : calls[j] = <<"requestAnimationFrame", "contacts">>
  /\ \A i \in Indices({<<"requestAnimationFrame", "builders">>}) :
       /\ \E j \in 1..(i - 1) : calls[j] = <<"fetch", "data.json">>
       /\ Settled /\ DocumentValid(data.value)
  /\ \A i \in BuilderCalls : \A n \in 1..Len(contactTypes) :
       \E j \in 1..(i - 1) : calls[j] = <<"syncContactInfo", contactTypes[n]>>
  /\ \A i \in SyncCalls : \A j \in SyncCalls :
       \A k \in i..j : k \in SyncCalls
  /\ \A i \in BuilderCalls : \A j \in BuilderCalls :
       \A k \in i..j : k \in BuilderCalls
  /\ \A i \in Adds :
       data.outcome = "valid" =>
         \A n \in 1..Len(builders) : \E j \in 1..(i - 1) : calls[j][1] = builders[n]

\* C10's case: the fetch settled before the first frame, both callbacks
\* ran, and content-loaded was added after the five builders.
C10_Witness ==
  /\ Completed
  /\ data.outcome = "valid"
  /\ Cardinality(SyncCalls) = 5
  /\ Cardinality(BuilderCalls) = 5
  /\ Adds # {}
  /\ \E i \in SyncCalls : \E j \in 1..(i - 1) : calls[j] = <<"requestAnimationFrame", "builders">>

----------------------------------------------------------------------------
(* The functions of the script called on their own, on inputs drawn from   *)
(* small sets; `last` records the call and the document before it.         *)

Given(d) == [outcome |-> "given", value |-> d]

\* ---- the section builders, called in any order on any document --------

BuilderShapes == { {}, {Container("experience")}, Containers }

InitBuilders == \E m \in BuilderShapes : \E d \in Documents : InitWith(m, Given(d))

CallBuilder(fn) ==
  /\ \E b \in {Build(fn, World, data.value)} :
       /\ SetWorld(b.w)
       /\ last' = [fn |-> fn, outcome |-> b.outcome, before |-> markup]
  /\ UNCHANGED <<frames, pc, data, calls, errors>>

NextBuilders ==
  \/ CallBuilder("buildHeaderSummary")
  \/ CallBuilder("buildExperienceSection")
  \/ CallBuilder("buildEducationSection")
  \/ CallBuilder("buildSkillsSection")
  \/ CallBuilder("buildProjectsSection")

SpecBuilders == InitBuilders /\ [][NextBuilders]_vars

\* ---- validateData, called on any document over the required keys ------

ValidateValues == { Undefined, Null, Bool(FALSE), Num(0), Str(<<>>), Arr(<<>>) }

ValidateDocuments ==
  { Document(p, x, e, s, j) :
      p \in ValidateValues, x \in ValidateValues, e \in ValidateValues,
      s \in ValidateValues, j \in ValidateValues }

InitValidate == \E d \in ValidateDocuments : InitWith({}, Given(d))

CallValidate ==
  /\ last = NoCall
  /\ \E r \in {validateData(data.value)} :
       last' = [fn |-> "validateData", arg |-> data.value,
                threw |-> r.threw, message |-> r.message]
  /\ UNCHANGED <<domCache, escapeCache, tempDiv, markup, classList, frames, pc,
                 data, calls, errors>>

NextValidate == CallValidate

SpecValidate == InitValidate /\ [][NextValidate]_vars

\* ---- escapeHtml, called on any sequence of values ----------------------

Chars == {"a", "<", ">", "&"}

Texts == UNION {[1..n -> Chars] : n \in 0..MaxTextLen}

EscapeInputs ==
  {Str(t) : t \in Texts \cup {<<NBSP>>, <<"a", NBSP>>}}
  \cup {Undefined, Null, Num(5), Arr(<<>>)}

InitEscape == InitWith({}, NoData)

\* The escape cache grows without bound in the script; here a call that
\* would add an entry is made while fewer than MaxCachedTexts are cached.
CallEscape ==
  \E x \in EscapeInputs :
    /\ \/ x.t # "string"
       \/ x.s \in DOMAIN escapeCache
       \/ Cardinality(DOMAIN escapeCache) < MaxCachedTexts
    /\ \E r \in {escapeHtml(World.esc, x)} :
         /\ escapeCache' = r.esc.cache
         /\ tempDiv' = r.esc.div
         /\ last' = [fn |-> "escapeHtml", arg |-> x, ret |-> r.ret,
                     hit |-> x.t = "string" /\ x.s \in DOMAIN escapeCache,
                     before |-> escapeCache]
    /\ UNCHANGED <<domCache, markup, classList, frames, pc, data, calls, errors>>

NextEscape == CallEscape

SpecEscape == InitEscape /\ [][NextEscape]_vars

\* ---- getElement, called on any sequence of selectors -------------------

ResolverSelectors == {<<".experience-list">>, <<".education-list">>, <<"#none">>}

ResolverNodes == {<<"node 1">>, <<"node 2">>}

InitResolver == InitWith({}, NoData)

\* `found` is what document.querySelector answers if this call asks it: the
\* document is not the script's, and may change between two calls.
\* last.firsts maps a selector to the answer of its first call with caching.
CallGetElement ==
  \E selector \in ResolverSelectors, useCache \in BOOLEAN,
     found \in ResolverNodes \cup {NoNode} :
    /\ \E r \in {getElement(domCache, found, selector, useCache)} :
         /\ domCache' = r.cache
         /\ \E firsts \in {IF last = NoCall THEN EmptyMap ELSE last.firsts} :
              last' = [fn |-> "getElement", selector |-> selector,
                       useCache |-> useCache, found |-> found,
                       cacheBefore |-> domCache, ret |-> r.ret, queried |-> r.queried,
                       again |-> useCache /\ selector \in DOMAIN firsts,
                       firsts |-> IF useCache /\ selector \notin DOMAIN firsts
                                  THEN MapSet(firsts, selector, r.ret) ELSE firsts]
    /\ UNCHANGED <<escapeCache, tempDiv, markup, classList, frames, pc, data,
                   calls, errors>>

NextResolver == CallGetElement

SpecResolver == InitResolver /\ [][NextResolver]_vars

\* ---- syncContactInfo, called for any names in any order ----------------

ContactNodes == HeaderNodes \cup SidebarNodes

ContactShapes == {m \in SUBSET ContactNodes : Cardinality(m) <= 2}

InitContact == \E m \in ContactShapes : InitWith(m, NoData)

CallSync ==
  \E name \in Range(contactTypes) :
    /\ SetWorld(syncContactInfo(World, name))
    /\ last' = [fn |-> "syncContactInfo", arg |-> name, before |-> markup]
    /\ UNCHANGED <<frames, pc, data, calls, errors>>

NextContact == CallSync

SpecContact == InitContact /\ [][NextContact]_vars

----------------------------------------------------------------------------
(* Claims about the functions called on their own.                         *)

SectionOf(fn) ==
  CASE fn = "buildHeaderSummary" -> "personal"
    [] fn = "buildExperienceSection" -> "experience"
    [] fn = "buildEducationSection" -> "education"
    [] fn = "buildSkillsSection" -> "technicalSkills"
    [] fn = "buildProjectsSection" -> "projects"

\* The shape a builder requires of its slice of the document is not there.
ShapeFails(fn, d) ==
  CASE fn = "buildHeaderSummary" -> ~Truthy(Prop(Prop(d, "personal"), "summary"))
    [] fn = "buildSkillsSection" -> ~Truthy(Prop(d, "technicalSkills"))
    [] OTHER -> Prop(d, SectionOf(fn)).t # "array"

\* C4: a builder whose container does not resolve, whose slice of the
\* document fails the shape it requires, or whose rendering throws leaves
\* every node's markup as it was before the call; and a builder never
\* changes the markup of a node other than its own container.  It skips
\* exactly when the container or the shape is missing.
C4_NoPartialWrite ==
  last.fn \in Range(builders) =>
    LET c == Container(SectionOf(last.fn)) IN
      /\ DOMAIN markup = DOMAIN last.before
      /\ \A n \in DOMAIN markup \ {c} : markup[n] = last.before[n]
      /\ (last.outcome = "skipped") <=>
           (c \notin DOMAIN last.before \/ ShapeFails(last.fn, data.value))
      /\ last.outcome \in {"skipped", "caught", "uncaught"} => markup = last.before

\* C4's case: experience is not a list, the experience builder has just been
\* called on a page that has its container, and another builder has filled
\* its own.
C4_Witness ==
  /\ last.fn = "buildExperienceSection"
  /\ Prop(data.value, "experience").t = "string"
  /\ Container("experience") \in DOMAIN markup
  /\ markup[Container("experience")] = <<"Loading...">>
  /\ \E c \in Containers \cap DOMAIN markup : markup[c] # <<"Loading...">>

\* The keys a validation error names: the tokens between the separators.
NamedKeys(message) == [i \in 1..(Len(message) \div 2) |-> message[2 * i]]

Position(key) == CHOOSE i \in 1..Len(required) : required[i] = key

\* C5: validateData throws if and only if some required key is absent or
\* falsy; the error names exactly those keys, comma-joined, in the required
\* order; a document with the five keys truthy passes, and is not changed.
C5_NamesExactlyTheMissing ==
  last.fn = "validateData" =>
    LET falsy == {k \in Range(required) : ~Truthy(Prop(last.arg, k))}
        keys == NamedKeys(last.message)
    IN /\ last.threw <=> falsy # {}
       /\ last.threw =>
            /\ Len(last.message) = 2 * Cardinality(falsy)
            /\ last.message[1] = "Missing required sections: "
            /\ Range(keys) = falsy
            /\ \A i \in 1..(Len(keys) - 1) :
                 /\ Position(keys[i]) < Position(keys[i + 1])
                 /\ last.message[2 * i + 1] = ", "
       /\ ~last.threw => last.message = <<>>
       /\ data.value = last.arg

\* C5's case: only personal is there, and the error names the other four.
C5_Witness ==
  /\ last.fn = "validateData"
  /\ Truthy(Prop(last.arg, "personal"))
  /\ last.message = <<"Missing required sections: ", "experience", ", ", "education",
                      ", ", "technicalSkills", ", ", "projects">>

\* C6, as claimed: whenever a selector is queried again with caching, the
\* call returns the node the first such call returned and asks the
\* document nothing.
C6_SecondCallFromCache ==
  (last.fn = "getElement" /\ last.again) =>
     (last.ret = last.firsts[last.selector] /\ ~last.queried)

\* C6 amended: whenever a selector is queried again with caching and the
\* first such call found a node, the call returns that very node and asks
\* the document nothing; a selector whose first call found no node is
\* looked up in the document again.
C6_FoundNodeFromCache ==
  (last.fn = "getElement" /\ last.again) =>
     IF last.firsts[last.selector] # NoNode
     THEN last.ret = last.firsts[last.selector] /\ ~last.queried
     ELSE last.queried \/ last.selector \in DOMAIN last.cacheBefore

\* C6's case: a selector is queried again with caching after its first call
\* found a node, calls without caching and of other selectors in between,
\* and the document would now answer another node.
C6_Witness ==
  /\ last.fn = "getElement" /\ last.again
  /\ last.firsts[last.selector] = <<"node 1">>
  /\ last.found = <<"node 2">>
  /\ Cardinality(DOMAIN last.firsts) = 3

\* C8: syncContactInfo(name) copies the sidebar node's markup onto the
\* header node when the document has both, and changes no other node; when
\* either is missing it changes no node at all.
C8_CopiesSidebarOntoHeader ==
  last.fn = "syncContactInfo" =>
    LET h == headerSelector(last.arg)
        sb == sidebarSelector(last.arg)
    IN /\ DOMAIN markup = DOMAIN last.before
       /\ IF h \in DOMAIN last.before /\ sb \in DOMAIN last.before
          THEN /\ markup[h] = last.before[sb]
               /\ \A n \in DOMAIN markup \ {h} : markup[n] = last.before[n]
          ELSE markup = last.before

\* C8's case: a name whose two nodes are there has just been synchronized
\* and the header's markup changed, on a page that lacks a node of another
\* name.
C8_Witness ==
  /\ last.fn = "syncContactInfo"
  /\ headerSelector(last.arg) \in DOMAIN markup
  /\ markup[headerSelector(last.arg)] # last.before[headerSelector(last.arg)]
  /\ \E n \in ContactNodes : n \notin DOMAIN markup

\* C9: the text escapeHtml returns depends on its input alone (it is what a
\* call with an empty cache returns), and holds no raw <, > or &; for an
\* input that is not a string it is empty and the cache is left as it was.
C9_EscapeIgnoresCache ==
  last.fn = "escapeHtml" =>
    /\ last.ret = escapeHtml([cache |-> EmptyMap, div |-> FALSE], last.arg).ret
    /\ \A i \in 1..Len(last.ret) : last.ret[i] \notin {"<", ">", "&"}
    /\ last.arg.t # "string" => (last.ret = <<>> /\ escapeCache = last.before)

\* C9's case: a text with a markup character is answered from the cache,
\* which holds another text too.
C9_Witness ==
  /\ last.fn = "escapeHtml"
  /\ last.hit
  /\ "<" \in Range(last.arg.s)
  /\ Cardinality(DOMAIN escapeCache) = 2

====
